---- MODULE Spec2Model ----
(***************************************************************************)
(* A model of the WhatsApp relay bot (KarboLennon/botwav2):                *)
(*   - MessageQueue          (queue/MessageQueue.ts)                       *)
(*   - ErrorHandler          (error/ErrorHandler.ts)                       *)
(*   - MessageRelayService   (relay/MessageRelayService.ts)                *)
(*   - WhatsAppClientManager (client/WhatsAppClientManager.ts)             *)
(*   - StateManager          (state/StateManager.ts)                       *)
(*   - ShutdownHandler, main (shutdown/ShutdownHandler.ts, index.ts)       *)
(* Node.js runs one callback at a time; a coroutine yields only at an      *)
(* await.  Every action below is one run of a callback from the point it   *)
(* is resumed to the next await (or to its return).                        *)
(***************************************************************************)
EXTENDS Integers, Sequences, FiniteSets, TLC

(***************************************************************************)
(* Bounds of the model.                                                    *)
(***************************************************************************)
MaxJobs == 4

MaxClears == 1

\* the largest retryAttempts a configuration sets
MaxRetryAttempts == 7

\* inbound messages
MaxMessages == 2

\* words in an error message
MaxWords == 2

\* 'disconnected' events in a row without a 'ready'
MaxDisconnects == 7

\* reconnection delays pending at once
MaxPending == 5

\* initialize() calls pending at once
MaxInits == 2

\* the largest value an increment takes a counter to
MaxCount == 3

\* gracefulShutdown calls made by signals and uncaught errors
MaxShutdownCalls == 2

VARIABLES
    \* ---- MessageQueue ----
    queue,            \* MessageQueue.queue: the buffered job ids, head first
    isProcessing,     \* MessageQueue.isProcessing
    rateLimitDelay,   \* MessageQueue.rateLimitDelay
    isRateLimited,    \* MessageQueue.isRateLimited
    rateWaiters,      \* processQueue coroutines suspended at the rate-limit sleep
    msgWaiters,       \* processQueue coroutines suspended at the inter-message sleep
    drainSleep,       \* duration of the sleep the most recent drain suspension asked for
    popped,           \* history: job ids in the order dequeue() returned them in the drain
    enqueued,         \* history: job ids in the order enqueue() received them
    everRateLimited,  \* history: setRateLimited(true, ..) has been called
    clearCount,       \* history: number of clear() calls
    \* ---- ErrorHandler ----
    maxRetries,       \* ErrorHandler.maxRetries, set by the constructor
    errInput,         \* the message of the error last given to shouldRetry
    errChecked,       \* shouldRetry has been called
    errVerdict,       \* what that call returned
    \* ---- MessageRelayService ----
    runs,             \* one handleIncomingMessage run per inbound message, see RelayInit
    \* ---- WhatsAppClientManager ----
    hasClient,        \* this.client is not null
    isClientReady,    \* WhatsAppClientManager.isClientReady
    reconnectAttempts,\* WhatsAppClientManager.reconnectAttempts
    pendingReconnects,\* handleDisconnect coroutines suspended in their delay (line 133)
    initsInFlight,    \* initialize() coroutines suspended at await client.initialize()
    reconnectDelay,   \* the delay the most recent handleDisconnect asked for
    phase,            \* history: what the handler that ran last made of a session
                      \* that is not ready, see ConnectionState
    disconnectsSinceReady, \* history: 'disconnected' events since the last 'ready'
    initRaised,       \* history: the initialize() that settled last rejected, and
                      \* no initialize() or 'ready' has come since
    \* ---- StateManager ----
    state,            \* StateManager.state: its messageCount and errorCount
    file,             \* the content of bot-state.json
    autoSave,         \* the interval of startAutoSave is running
    lastOp,           \* history: the StateManager operation that ran last
    \* ---- main, ShutdownHandler ----
    mainPc,           \* where main() stands
    handlersSet,      \* setupHandlers() has registered the process listeners
    monitoring,       \* the interval of MemoryManager.startMonitoring is running
    isShuttingDown,   \* ShutdownHandler.isShuttingDown
    shutdownPc,       \* where the gracefulShutdown that passed the guard stands
    exitCode,         \* the exitCode variable of that gracefulShutdown
    exitStatus,       \* the code given to process.exit, NotExited before
    shutdownCalls,    \* history: calls of gracefulShutdown
    shutdownCause,    \* history: who made the call that passed the guard
    stepRaised,       \* history: the try block of gracefulShutdown has thrown
    shutdownSaves,    \* history: saveState calls made by gracefulShutdown
    destroyCalls,     \* history: client.destroy() calls made through disconnect()
    exitTimers,       \* history: exit timers set by the finally block
    lateDisconnect,   \* history: a 'disconnected' event came after shutdown began
    \* ---- ConfigManager ----
    prefixA,          \* config.prefixA
    prefixB,          \* config.prefixB
    config,           \* numberA and numberB of ConfigManager.config, see NoConfig
    configStatus,     \* history: what loadConfig did
    numberMapping,    \* ConfigManager.numberMapping
    lookup            \* history: the last call of getNumberMapping and its result

qvars == <<queue, isProcessing, rateLimitDelay, isRateLimited, rateWaiters,
           msgWaiters, drainSleep, popped, enqueued, everRateLimited, clearCount>>

evars == <<maxRetries, errInput, errChecked, errVerdict>>

rvars == <<runs>>

cvars == <<hasClient, isClientReady, reconnectAttempts, pendingReconnects,
           initsInFlight, reconnectDelay, phase, disconnectsSinceReady, initRaised>>

svars == <<state, file, autoSave, lastOp>>

pvars == <<mainPc, handlersSet, monitoring, isShuttingDown, shutdownPc, exitCode,
           exitStatus, shutdownCalls, shutdownCause, stepRaised, shutdownSaves,
           destroyCalls, exitTimers, lateDisconnect>>

kvars == <<prefixA, prefixB, config, configStatus, numberMapping, lookup>>

vars == <<qvars, evars, rvars, cvars, svars, pvars, kvars>>

\* what the actions of one component leave alone
notQueue == <<evars, rvars, cvars, svars, pvars, kvars>>

notError == <<qvars, rvars, cvars, svars, pvars, kvars>>

notRelay == <<qvars, evars, cvars, svars, pvars, kvars>>

notClient == <<qvars, evars, rvars, svars, pvars, kvars>>

notState == <<qvars, evars, rvars, cvars, pvars, kvars>>

\* main and ShutdownHandler act on the client manager and the state manager
notProcess == <<qvars, evars, rvars, kvars>>

(***************************************************************************)
(* MessageQueue                                                            *)
(***************************************************************************)
DefaultRateLimitDelay == 1000

\* the delayMs arguments tried for setRateLimited; 0 stands for an omitted one
DelayOverrides == {0, 5000}

QueueInit ==
    /\ queue = <<>>
    /\ isProcessing = FALSE
    /\ rateLimitDelay = DefaultRateLimitDelay
    /\ isRateLimited = FALSE
    /\ rateWaiters = 0
    /\ msgWaiters = 0
    /\ drainSleep = 0
    /\ popped = <<>>
    /\ enqueued = <<>>
    /\ everRateLimited = FALSE
    /\ clearCount = 0

\* a dequeue that takes the newest job instead of the oldest (pop for shift)
dequeue_pop(q) ==
    IF q = <<>> THEN [found |-> FALSE, rest |-> q]
    ELSE [found |-> TRUE, message |-> q[Len(q)], rest |-> SubSeq(q, 1, Len(q) - 1)]

\* dequeue(): Array.shift, the head, or undefined (found = FALSE)
dequeue(q) ==
    IF q = <<>> THEN [found |-> FALSE, rest |-> q]
    ELSE [found |-> TRUE, message |-> Head(q), rest |-> Tail(q)]

\* the body of the while loop from the dequeue on (lines 95-104), then the
\* loop again when nothing was dequeued; rw and mw count the other suspended
\* coroutines, ip is isProcessing as this coroutine left it
RECURSIVE drainLoop(_, _, _, _)
drainFromDequeue(q, rw, mw, ip) ==
    LET d == dequeue(q) IN
    IF d.found
    THEN /\ queue' = d.rest
         /\ popped' = Append(popped, d.message)
         /\ drainSleep' = rateLimitDelay
         /\ msgWaiters' = mw + 1
         /\ rateWaiters' = rw
         /\ isProcessing' = ip
    ELSE drainLoop(d.rest, rw, mw, ip)

\* a loop that does not look at the gate
drainLoop_noGate(q, rw, mw, ip) ==
    IF q = <<>>
    THEN /\ queue' = q
         /\ isProcessing' = FALSE
         /\ rateWaiters' = rw
         /\ msgWaiters' = mw
         /\ UNCHANGED <<popped, drainSleep>>
    ELSE drainFromDequeue(q, rw, mw, ip)

\* the while loop of processQueue from its condition (line 89) up to the
\* next await or to the end of the function (line 107)
drainLoop(q, rw, mw, ip) ==
    IF q = <<>>
    THEN /\ queue' = q
         /\ isProcessing' = FALSE
         /\ rateWaiters' = rw
         /\ msgWaiters' = mw
         /\ UNCHANGED <<popped, drainSleep>>
    ELSE IF isRateLimited
    THEN /\ queue' = q
         /\ drainSleep' = rateLimitDelay
         /\ rateWaiters' = rw + 1
         /\ msgWaiters' = mw
         /\ isProcessing' = ip
         /\ UNCHANGED popped
    ELSE drainFromDequeue(q, rw, mw, ip)

\* a processQueue that does not raise the isProcessing flag
processQueue_noFlag(q) ==
    IF isProcessing
    THEN /\ queue' = q
         /\ UNCHANGED <<isProcessing, rateWaiters, msgWaiters, popped, drainSleep>>
    ELSE drainLoop(q, rateWaiters, msgWaiters, isProcessing)

\* processQueue() called on the buffer q, run to its first await
processQueue(q) ==
    IF isProcessing
    THEN /\ queue' = q
         /\ UNCHANGED <<isProcessing, rateWaiters, msgWaiters, popped, drainSleep>>
    ELSE drainLoop(q, rateWaiters, msgWaiters, TRUE)

\* the jobs the drain has handed to a delivery function: MessageQueue is
\* given none, and processQueue only logs the job it has dequeued
handedToDelivery == <<>>

\* an enqueue that starts no drain
Enqueue_noStart(m) ==
    /\ Len(enqueued) < MaxJobs
    /\ m = Len(enqueued) + 1
    /\ enqueued' = Append(enqueued, m)
    /\ queue' = Append(queue, m)
    /\ UNCHANGED <<isProcessing, rateWaiters, msgWaiters, popped, drainSleep>>
    /\ UNCHANGED <<rateLimitDelay, isRateLimited, everRateLimited, clearCount>>
    /\ UNCHANGED notQueue

\* enqueue(message)
Enqueue(m) ==
    /\ Len(enqueued) < MaxJobs
    /\ m = Len(enqueued) + 1
    /\ enqueued' = Append(enqueued, m)
    /\ IF ~isProcessing
       THEN processQueue(Append(queue, m))
       ELSE /\ queue' = Append(queue, m)
            /\ UNCHANGED <<isProcessing, rateWaiters, msgWaiters, popped, drainSleep>>
    /\ UNCHANGED <<rateLimitDelay, isRateLimited, everRateLimited, clearCount>>
    /\ UNCHANGED notQueue

\* the rate-limit sleep of a drain ends (line 92 resumes)
RateWaitDone ==
    /\ rateWaiters > 0
    /\ drainFromDequeue(queue, rateWaiters - 1, msgWaiters, isProcessing)
    /\ UNCHANGED <<rateLimitDelay, isRateLimited, enqueued, everRateLimited, clearCount>>
    /\ UNCHANGED notQueue

\* the inter-message sleep of a drain ends (line 103 resumes)
MsgWaitDone ==
    /\ msgWaiters > 0
    /\ drainLoop(queue, rateWaiters, msgWaiters - 1, isProcessing)
    /\ UNCHANGED <<rateLimitDelay, isRateLimited, enqueued, everRateLimited, clearCount>>
    /\ UNCHANGED notQueue

\* setRateLimited(isLimited, delayMs)
SetRateLimited(isLimited, delayMs) ==
    /\ isRateLimited' = isLimited
    /\ rateLimitDelay' = IF delayMs # 0 THEN delayMs ELSE rateLimitDelay
    /\ everRateLimited' = (everRateLimited \/ isLimited)
    /\ UNCHANGED <<queue, isProcessing, rateWaiters, msgWaiters, drainSleep,
                   popped, enqueued, clearCount>>
    /\ UNCHANGED notQueue

\* clear()
Clear ==
    /\ clearCount < MaxClears
    /\ queue' = <<>>
    /\ clearCount' = clearCount + 1
    /\ UNCHANGED <<isProcessing, rateLimitDelay, isRateLimited, rateWaiters,
                   msgWaiters, drainSleep, popped, enqueued, everRateLimited>>
    /\ UNCHANGED notQueue

QueueNext ==
    \/ \E m \in 1..MaxJobs : Enqueue(m)
    \/ RateWaitDone
    \/ MsgWaitDone
    \/ \E l \in BOOLEAN, d \in DelayOverrides : SetRateLimited(l, d)
    \/ Clear

(***************************************************************************)
(* ErrorHandler                                                            *)
(***************************************************************************)
DefaultMaxRetries == 3

initialDelay == 1000

maxDelay == 30000

backoffMultiplier == 2

nonRetryablePatterns ==
    << <<"i", "n", "v", "a", "l", "i", "d", " ", "c", "o", "n", "f", "i", "g", "u", "r", "a", "t", "i", "o", "n">>,
       <<"a", "u", "t", "h", "e", "n", "t", "i", "c", "a", "t", "i", "o", "n", " ", "f", "a", "i", "l", "e", "d">>,
       <<"i", "n", "v", "a", "l", "i", "d", " ", "r", "e", "c", "i", "p", "i", "e", "n", "t">>,
       <<"i", "n", "v", "a", "l", "i", "d", " ", "p", "h", "o", "n", "e", " ", "n", "u", "m", "b", "e", "r">>,
       <<"b", "a", "n", "n", "e", "d">>,
       <<"u", "n", "a", "u", "t", "h", "o", "r", "i", "z", "e", "d">> >>

retryablePatterns ==
    << <<"t", "i", "m", "e", "o", "u", "t">>,
       <<"n", "e", "t", "w", "o", "r", "k">>,
       <<"e", "c", "o", "n", "n", "r", "e", "f", "u", "s", "e", "d">>,
       <<"e", "n", "o", "t", "f", "o", "u", "n", "d">>,
       <<"r", "a", "t", "e", " ", "l", "i", "m", "i", "t">>,
       <<"t", "e", "m", "p", "o", "r", "a", "r", "y">>,
       <<"u", "n", "a", "v", "a", "i", "l", "a", "b", "l", "e">> >>

UpperCaseLetters ==
    <<"A", "B", "C", "D", "E", "F", "G", "H", "I", "J", "K", "L", "M", "N", "O", "P", "Q", "R", "S", "T", "U", "V", "W", "X", "Y", "Z">>

LowerCaseLetters ==
    <<"a", "b", "c", "d", "e", "f", "g", "h", "i", "j", "k", "l", "m", "n", "o", "p", "q", "r", "s", "t", "u", "v", "w", "x", "y", "z">>

\* words error messages are made of, besides the patterns themselves
OtherWords ==
    { <<"B", "a", "n", "n", "e", "d">>,
      <<"U", "N", "A", "U", "T", "H", "O", "R", "I", "Z", "E", "D">>,
      <<"I", "n", "v", "a", "l", "i", "d", " ", "R", "e", "c", "i", "p", "i", "e", "n", "t">>,
      <<"T", "i", "m", "e", "o", "u", "t">>,
      <<"N", "E", "T", "W", "O", "R", "K">>,
      <<"R", "a", "t", "e", " ", "L", "i", "m", "i", "t">>,
      <<"o", "o", "p", "s">>,
      <<"b", "a", "n", "n", "e">>,
      <<"t", "i", "m", "e", " ", "o", "u", "t">>,
      <<"E", "C", "O", "N", "N", "R", "E", "S", "E", "T">> }

Range(f) == {f[i] : i \in DOMAIN f}

Words == Range(nonRetryablePatterns) \cup Range(retryablePatterns) \cup OtherWords

\* the messages of 1..n words, separated by a space
RECURSIVE MessagesOf(_)
MessagesOf(n) ==
    IF n <= 1 THEN Words
    ELSE MessagesOf(n - 1) \cup
         {m \o <<" ">> \o w : m \in MessagesOf(n - 1), w \in Words}

ErrorMessages == MessagesOf(MaxWords)

\* String.prototype.toLowerCase, one character
toLowerChar(c) ==
    IF \E i \in 1..Len(UpperCaseLetters) : UpperCaseLetters[i] = c
    THEN LowerCaseLetters[CHOOSE i \in 1..Len(UpperCaseLetters) : UpperCaseLetters[i] = c]
    ELSE c

\* String.prototype.toLowerCase
toLowerCase(s) == [i \in 1..Len(s) |-> toLowerChar(s[i])]

\* String.prototype.includes: the first position from i on where p occurs
RECURSIVE includesFrom(_, _, _)
includesFrom(s, p, i) ==
    IF i + Len(p) - 1 > Len(s) THEN FALSE
    ELSE IF SubSeq(s, i, i + Len(p) - 1) = p THEN TRUE
    ELSE includesFrom(s, p, i + 1)

includes(s, p) == includesFrom(s, p, 1)

\* a shouldRetry that looks for the retryable patterns first
shouldRetry_retryableFirst(message) ==
    LET errorMessage == toLowerCase(message) IN
    IF \E i \in 1..Len(retryablePatterns) : includes(errorMessage, retryablePatterns[i])
    THEN TRUE
    ELSE IF \E i \in 1..Len(nonRetryablePatterns) :
                includes(errorMessage, nonRetryablePatterns[i])
    THEN FALSE
    ELSE TRUE

\* shouldRetry(error), on error.message
shouldRetry(message) ==
    LET errorMessage == toLowerCase(message) IN
    IF \E i \in 1..Len(nonRetryablePatterns) :
            includes(errorMessage, nonRetryablePatterns[i])
    THEN FALSE
    ELSE IF \E i \in 1..Len(retryablePatterns) : includes(errorMessage, retryablePatterns[i])
    THEN TRUE
    ELSE TRUE

\* Math.pow on non-negative integers
RECURSIVE Pow(_, _)
Pow(b, n) == IF n = 0 THEN 1 ELSE b * Pow(b, n - 1)

Min(a, b) == IF a <= b THEN a ELSE b

\* a calculateBackoff without the cap
calculateBackoff_noCap(attemptNumber) ==
    initialDelay * Pow(backoffMultiplier, attemptNumber)

\* calculateBackoff(attemptNumber)
calculateBackoff(attemptNumber) ==
    LET delay == initialDelay * Pow(backoffMultiplier, attemptNumber)
    IN  Min(delay, maxDelay)

ErrorInit ==
    /\ maxRetries \in 0..MaxRetryAttempts
    /\ errInput = <<>>
    /\ errChecked = FALSE
    /\ errVerdict = FALSE

\* a call shouldRetry(new Error(message))
ShouldRetryCall(message) ==
    /\ ~errChecked
    /\ errInput' = message
    /\ errChecked' = TRUE
    /\ errVerdict' = shouldRetry(message)
    /\ UNCHANGED maxRetries
    /\ UNCHANGED notError

ClassifyNext == \E message \in ErrorMessages : ShouldRetryCall(message)

(***************************************************************************)
(* ErrorHandler.retryWithBackoff and MessageRelayService                   *)
(* A run is a record:                                                      *)
(*   pc         where the run is suspended: idle (message not yet          *)
(*              received), contact (await message.getContact()), attempt   *)
(*              (await fn()), backoff (await this.sleep(delay)), apology   *)
(*              (await client.sendMessage in sendErrorMessage), done       *)
(*   from, hasMedia, body   message.from, message.hasMedia, message.body   *)
(*   stage      the retryWithBackoff call the run is in: none, text        *)
(*              (relayTextMessage), download (downloadMedia), media        *)
(*              (relayMediaMessage)                                        *)
(*   retries, attempt, lastError   the locals of retryWithBackoff          *)
(*   calls      history: invocations of fn() by that call                  *)
(*   raised     history: the errors the failed fn() of that call raised    *)
(*   sleeps     history: the delays that call has slept                    *)
(*   result     how that call ended: none, pending, returned, thrown       *)
(*   thrown     the error that call threw                                  *)
(*   outcome    how the run ended: none, ignored, relayed, failed,         *)
(*              apologized                                                 *)
(*   sends      history: the sendMessage calls the run has made            *)
(*   handled    history: calls of handleError by the outer catch           *)
(*   absorbed   history: the rejections caught by the inner try blocks     *)
(*              (contact: getContact, apology: sendErrorMessage)           *)
(* The relay service listens only once the client exists, so getClient()   *)
(* in fn() does not throw.                                                 *)
(***************************************************************************)
Handlers == 1..MaxMessages

numberA == "A"

numberB == "B"

Senders == {numberA, numberB, "X"}

\* the message.body values tried
Bodies == {"hello", ""}

\* the prefixA values tried: that of the default configuration, and none
PrefixChoices == {"[From A]", ""}

\* the characters "@c.us"
CUs == <<"@", "c", ".", "u", "s">>

Digits == {"0", "1", "2", "3", "4", "5", "6", "7", "8", "9"}

\* k times the digit 1
Ones(k) == [i \in 1..k |-> "1"]

\* the numberA and numberB values tried, as sequences of characters: four
\* that the format allows (10, 13, 13 and 15 digits), one of 9 and one of 16
\* digits, a group id, one with a letter, and the empty or missing one
PhoneNumbers ==
    { <<"6", "2">> \o Ones(8) \o CUs,
      <<"6", "2">> \o Ones(11) \o CUs,
      <<"6", "3">> \o Ones(11) \o CUs,
      <<"6", "2">> \o Ones(13) \o CUs,
      <<"6", "2">> \o Ones(7) \o CUs,
      <<"6", "2">> \o Ones(14) \o CUs,
      <<"6", "2">> \o Ones(8) \o <<"@", "g", ".", "u", "s">>,
      <<"6", "x">> \o Ones(8) \o CUs,
      <<>> }

\* this.config before loadConfig: null
NoConfig == [numberA |-> <<>>, numberB |-> <<>>]

\* the null of getNumberMapping, which is no string
Absent == <<"null">>

\* /^\d{10,15}@c\.us$/.test(number)
validatePhoneNumber(number) ==
    \E k \in 10..15 :
        /\ Len(number) = k + Len(CUs)
        /\ \A i \in 1..k : number[i] \in Digits
        /\ SubSeq(number, k + 1, Len(number)) = CUs

\* validateConfig(config)
validateConfig(c) ==
    /\ c.numberA # <<>> /\ c.numberB # <<>>
    /\ validatePhoneNumber(c.numberA)
    /\ validatePhoneNumber(c.numberB)

\* buildNumberMapping(config): an object literal, whose later key wins when
\* the two keys are the same
buildNumberMapping(c) == (c.numberB :> c.numberA) @@ (c.numberA :> c.numberB)

\* this.numberMapping[number] || null
lookupMapping(mapping, number) ==
    IF number \in DOMAIN mapping /\ mapping[number] # <<>>
    THEN mapping[number]
    ELSE Absent

ConfigInit ==
    /\ prefixA \in PrefixChoices
    /\ prefixB = "[From B]"
    /\ config = NoConfig
    /\ configStatus = "unloaded"
    /\ numberMapping = <<>>
    /\ lookup = [done |-> FALSE, number |-> <<>>, target |-> Absent]

\* loadConfig() on a file that holds the JSON text of c
LoadConfig(c) ==
    /\ configStatus = "unloaded"
    /\ IF validateConfig(c)
       THEN /\ config' = c
            /\ numberMapping' = buildNumberMapping(c)
            /\ configStatus' = "loaded"
       ELSE /\ configStatus' = "rejected"
            /\ UNCHANGED <<config, numberMapping>>
    /\ UNCHANGED <<prefixA, prefixB, lookup>>
    /\ UNCHANGED <<qvars, evars, rvars, cvars, svars, pvars>>

\* getNumberMapping(number)
GetNumberMapping(number) ==
    /\ configStatus = "loaded"
    /\ lookup' = [done |-> TRUE, number |-> number,
                  target |-> lookupMapping(numberMapping, number)]
    /\ UNCHANGED <<prefixA, prefixB, config, configStatus, numberMapping>>
    /\ UNCHANGED <<qvars, evars, rvars, cvars, svars, pvars>>

ConfigNext ==
    \/ \E a \in PhoneNumbers, b \in PhoneNumbers :
          LoadConfig([numberA |-> a, numberB |-> b])
    \/ \E number \in PhoneNumbers : GetNumberMapping(number)

\* the text sendErrorMessage is called with
ApologyText == "jangan ngirim video, kaga bisa dibuka soalnya pake nomor bot gue"

NoError == <<>>

\* the errors the transport raises when relays overlap
RelayErrors == {retryablePatterns[1], nonRetryablePatterns[5]}

\* the errors the transport raises in the attempts of one relay
AttemptErrors ==
    { retryablePatterns[1],
      nonRetryablePatterns[5],
      <<"B", "a", "n", "n", "e", "d">>,
      <<"o", "o", "p", "s">>,
      retryablePatterns[2] \o <<" ">> \o nonRetryablePatterns[6] }

\* a lookup that gives strangers a counterpart
getNumberMapping_default(number) ==
    IF number = numberB THEN numberA
    ELSE numberB

\* getNumberMapping(number): the counterpart, or null (the empty string)
getNumberMapping(number) ==
    IF number = numberB THEN numberA
    ELSE IF number = numberA THEN numberB
    ELSE ""

\* getPrefix(number), the configuration being loaded
getPrefix(number) ==
    IF number = numberA THEN prefixA
    ELSE IF number = numberB THEN prefixB
    ELSE "[Unknown]"

\* a text format that puts the space in whatever the prefix
formatText_alwaysSpace(prefix, text) == prefix \o " " \o text

\* relayTextMessage: prefix ? `${prefix} ${text}` : text
formatText(prefix, text) ==
    IF prefix # "" THEN prefix \o " " \o text ELSE text

\* relayMediaMessage: the caption; '' is sent as undefined
formatCaption(prefix, body) ==
    IF body # "" THEN (IF prefix # "" THEN prefix \o " " \o body ELSE body)
    ELSE IF prefix # "" THEN prefix
    ELSE ""

\* client.sendMessage(to, text) and client.sendMessage(to, media, {caption})
textSend(to, text) == [to |-> to, media |-> FALSE, text |-> text]

mediaSend(to, caption) == [to |-> to, media |-> TRUE, text |-> caption]

\* the sendMessage call the fn() of stage s makes for run r
sendOf(r, s) ==
    IF s = "text"
    THEN {textSend(getNumberMapping(r.from), formatText(getPrefix(r.from), r.body))}
    ELSE IF s = "media"
    THEN {mediaSend(getNumberMapping(r.from), formatCaption(getPrefix(r.from), r.body))}
    ELSE {}

IdleRun ==
    [pc |-> "idle", from |-> "", hasMedia |-> FALSE, stage |-> "none",
     retries |-> 0, attempt |-> 0, lastError |-> NoError, calls |-> 0,
     raised |-> <<>>, sleeps |-> <<>>, result |-> "none",
     thrown |-> NoError, outcome |-> "none", body |-> "", sends |-> {},
     handled |-> 0, absorbed |-> {}]

RelayInit == runs = [h \in Handlers |-> IdleRun]

\* a retry count one larger than configured
defaultedRetries_plusOne == maxRetries + 1

\* const retries = maxRetries ?? this.maxRetries; no caller passes maxRetries
defaultedRetries == maxRetries

\* the run returns from handleIncomingMessage
finish(r, o) == [r EXCEPT !.pc = "done", !.outcome = o]

\* retryWithBackoff is entered and reaches its first await fn()
startRetry(r, s) ==
    [r EXCEPT !.pc = "attempt", !.stage = s, !.retries = defaultedRetries,
              !.attempt = 0, !.lastError = NoError, !.calls = 1,
              !.raised = <<>>, !.sleeps = <<>>, !.result = "pending",
              !.thrown = NoError, !.sends = @ \cup sendOf(r, s)]

\* sendErrorMessage(from, ..) up to its await of sendMessage
sendErrorMessage(r) ==
    [r EXCEPT !.pc = "apology", !.sends = @ \cup {textSend(r.from, ApologyText)}]

\* an outer catch that throws the error on once it has logged it
handleError_rethrows(r) == finish([r EXCEPT !.handled = @ + 1], "rejected")

\* the outer catch of handleIncomingMessage: handleError, then the run ends
handleError(r) == finish([r EXCEPT !.handled = @ + 1], "failed")

\* a failure path that apologizes for text as well
onThrow_apologizeText(r, e) ==
    LET r1 == [r EXCEPT !.result = "thrown", !.thrown = e] IN
    sendErrorMessage(r1)

\* a failure path that treats media like text
onThrow_silent(r, e) ==
    LET r1 == [r EXCEPT !.result = "thrown", !.thrown = e] IN
    handleError(r1)

\* retryWithBackoff throws e: relayTextMessage rethrows it to the outer catch
\* of handleIncomingMessage (handleError); downloadMedia turns it into null,
\* relayMediaMessage throws on null or rethrows, and the inner catch of
\* handleIncomingMessage calls sendErrorMessage
onThrow(r, e) ==
    LET r1 == [r EXCEPT !.result = "thrown", !.thrown = e] IN
    IF r.stage = "text" THEN handleError(r1)
    ELSE sendErrorMessage(r1)

\* retryWithBackoff returns the value of fn()
onReturn(r, isNull) ==
    LET r1 == [r EXCEPT !.result = "returned"] IN
    IF r.stage = "text" THEN finish(r1, "relayed")
    ELSE IF r.stage = "download"
    THEN IF isNull THEN sendErrorMessage(r1) ELSE startRetry(r1, "media")
    ELSE finish(r1, "relayed")

\* a catch block that gives up one attempt early
afterFailure_offByOne(att, r, e) ==
    IF att + 1 = r THEN "exhausted"
    ELSE IF ~shouldRetry(e) THEN "nonRetryable"
    ELSE "sleep"

\* a catch block that does not classify the error
afterFailure_noClassification(att, r, e) ==
    IF att = r THEN "exhausted"
    ELSE "sleep"

\* a catch block that sleeps after the last attempt as well
afterFailure_sleepOnLast(att, r, e) ==
    IF ~shouldRetry(e) THEN "nonRetryable"
    ELSE "sleep"

\* the catch block of retryWithBackoff (lines 54-79)
afterFailure(att, r, e) ==
    IF att = r THEN "exhausted"
    ELSE IF ~shouldRetry(e) THEN "nonRetryable"
    ELSE "sleep"

\* fn() rejects with e
onFailure(r, e) ==
    LET r1 == [r EXCEPT !.lastError = e, !.raised = Append(@, e)]
        d  == afterFailure(r.attempt, r.retries, e)
    IN  IF d = "sleep"
        THEN [r1 EXCEPT !.pc = "backoff",
                        !.sleeps = Append(@, calculateBackoff(r.attempt))]
        ELSE onThrow(r1, r1.lastError)

\* the sleep ends: attempt++, the loop condition, the next fn() or line 83
onBackoffDone(r) ==
    LET a == r.attempt + 1 IN
    IF a <= r.retries
    THEN [r EXCEPT !.attempt = a, !.pc = "attempt", !.calls = @ + 1]
    ELSE onThrow([r EXCEPT !.attempt = a], r.lastError)

\* the transport emits 'message': the listener of startListening starts
\* handleIncomingMessage, which runs to await message.getContact()
MessageArrives(h, f, media, b) ==
    /\ runs[h].pc = "idle"
    /\ \A g \in Handlers : g < h => runs[g].pc # "idle"
    /\ runs' = [runs EXCEPT ![h] = [@ EXCEPT !.pc = "contact", !.from = f,
                                               !.hasMedia = media, !.body = b]]
    /\ UNCHANGED notRelay

\* getContact settles (a rejection is caught); lookup, prefix, branch
ContactDone(h, ok) ==
    /\ runs[h].pc = "contact"
    /\ runs' = [runs EXCEPT ![h] =
                 LET r == IF ok THEN @ ELSE [@ EXCEPT !.absorbed = @ \cup {"contact"}]
                 IN  IF getNumberMapping(r.from) = "" THEN finish(r, "ignored")
                     ELSE IF r.hasMedia THEN startRetry(r, "download")
                     ELSE startRetry(r, "text")]
    /\ UNCHANGED notRelay

\* the awaited fn() resolves
AttemptSucceeds(h, isNull) ==
    /\ runs[h].pc = "attempt"
    /\ isNull => runs[h].stage = "download"
    /\ runs' = [runs EXCEPT ![h] = onReturn(@, isNull)]
    /\ UNCHANGED notRelay

\* the awaited fn() rejects with e
AttemptFails(h, e) ==
    /\ runs[h].pc = "attempt"
    /\ runs' = [runs EXCEPT ![h] = onFailure(@, e)]
    /\ UNCHANGED notRelay

\* the backoff timer fires
BackoffDone(h) ==
    /\ runs[h].pc = "backoff"
    /\ runs' = [runs EXCEPT ![h] = onBackoffDone(@)]
    /\ UNCHANGED notRelay

\* the sendMessage of sendErrorMessage settles (a rejection is caught)
ApologyDone(h, ok) ==
    /\ runs[h].pc = "apology"
    /\ runs' = [runs EXCEPT ![h] =
                 finish(IF ok THEN @ ELSE [@ EXCEPT !.absorbed = @ \cup {"apology"}],
                        "apologized")]
    /\ UNCHANGED notRelay

\* one inbound message and the retryWithBackoff calls made for it
RetryNext ==
    \/ \E f \in Senders, media \in BOOLEAN, b \in Bodies : MessageArrives(1, f, media, b)
    \/ \E ok \in BOOLEAN : ContactDone(1, ok)
    \/ \E isNull \in BOOLEAN : AttemptSucceeds(1, isNull)
    \/ \E e \in AttemptErrors : AttemptFails(1, e)
    \/ BackoffDone(1)
    \/ \E ok \in BOOLEAN : ApologyDone(1, ok)

\* the inbound messages, each handled by its own run
RelayNext ==
    \/ \E h \in Handlers, f \in Senders, media \in BOOLEAN :
          MessageArrives(h, f, media, "hello")
    \/ \E h \in Handlers : ContactDone(h, TRUE)
    \/ \E h \in Handlers, isNull \in BOOLEAN : AttemptSucceeds(h, isNull)
    \/ \E h \in Handlers, e \in RelayErrors : AttemptFails(h, e)
    \/ \E h \in Handlers : BackoffDone(h)
    \/ \E h \in Handlers : ApologyDone(h, TRUE)

(***************************************************************************)
(* WhatsAppClientManager                                                   *)
(* The class keeps no state name: it keeps isClientReady, reconnectAttempts *)
(* and its suspended coroutines.  phase records what the handler that ran  *)
(* last made of a session that is not ready, and ConnectionState reads the *)
(* state of section 4.3 off isClientReady and phase.  The state            *)
(* Disconnected is passed through inside the 'disconnected' handler, which *)
(* calls handleDisconnect before it returns.                               *)
(***************************************************************************)
maxReconnectAttempts == 5

ClientInit ==
    /\ hasClient = FALSE
    /\ isClientReady = FALSE
    /\ reconnectAttempts = 0
    /\ pendingReconnects = 0
    /\ initsInFlight = 0
    /\ reconnectDelay = 0
    /\ phase = "Uninitialized"
    /\ disconnectsSinceReady = 0
    /\ initRaised = FALSE

ConnectionState == IF isClientReady THEN "Ready" ELSE phase

\* an initialize() that also lowers isClientReady
initialize_notReady ==
    /\ hasClient' = TRUE
    /\ initsInFlight' = initsInFlight + 1
    /\ phase' = "Initializing"
    /\ initRaised' = FALSE
    /\ isClientReady' = FALSE

\* initialize() up to await this.client.initialize(): a new Client, its handlers
initialize ==
    /\ hasClient' = TRUE
    /\ initsInFlight' = initsInFlight + 1
    /\ phase' = "Initializing"
    /\ initRaised' = FALSE
    /\ UNCHANGED isClientReady

\* main calls clientManager.initialize()
MainInitialize ==
    /\ ~hasClient
    /\ initialize
    /\ UNCHANGED <<reconnectAttempts, pendingReconnects, reconnectDelay,
                   disconnectsSinceReady>>
    /\ UNCHANGED notClient

\* await this.client.initialize() settles; handleDisconnect only logs a rejection
InitializeSettles(ok) ==
    /\ initsInFlight > 0
    /\ initsInFlight' = initsInFlight - 1
    /\ initRaised' = ~ok
    /\ UNCHANGED <<hasClient, isClientReady, reconnectAttempts, pendingReconnects,
                   reconnectDelay, phase, disconnectsSinceReady>>
    /\ UNCHANGED notClient

\* 'qr': the code is shown and saved, no field changes
OnQr ==
    /\ hasClient
    /\ phase' = IF phase = "Initializing" THEN "AwaitingCredential" ELSE phase
    /\ UNCHANGED <<hasClient, isClientReady, reconnectAttempts, pendingReconnects,
                   initsInFlight, reconnectDelay, disconnectsSinceReady, initRaised>>
    /\ UNCHANGED notClient

\* a 'ready' handler that leaves the reconnect counter as it finds it
OnReady_noReset ==
    /\ hasClient
    /\ isClientReady' = TRUE
    /\ UNCHANGED reconnectAttempts
    /\ disconnectsSinceReady' = 0
    /\ initRaised' = FALSE
    /\ UNCHANGED <<hasClient, pendingReconnects, initsInFlight, reconnectDelay, phase>>
    /\ UNCHANGED notClient

\* 'ready'
OnReady ==
    /\ hasClient
    /\ isClientReady' = TRUE
    /\ reconnectAttempts' = 0
    /\ disconnectsSinceReady' = 0
    /\ initRaised' = FALSE
    /\ UNCHANGED <<hasClient, pendingReconnects, initsInFlight, reconnectDelay, phase>>
    /\ UNCHANGED notClient

\* 'auth_failure'
OnAuthFailure ==
    /\ hasClient
    /\ isClientReady' = FALSE
    /\ phase' = "Failed"
    /\ UNCHANGED <<hasClient, reconnectAttempts, pendingReconnects, initsInFlight,
                   reconnectDelay, disconnectsSinceReady, initRaised>>
    /\ UNCHANGED notClient

\* a handleDisconnect that gives up one event later
handleDisconnect_greater ==
    IF reconnectAttempts > maxReconnectAttempts
    THEN /\ phase' = "Failed"
         /\ UNCHANGED <<reconnectAttempts, pendingReconnects, reconnectDelay>>
    ELSE /\ reconnectAttempts' = reconnectAttempts + 1
         /\ reconnectDelay' = Min(1000 * Pow(2, reconnectAttempts + 1), 30000)
         /\ pendingReconnects' = pendingReconnects + 1
         /\ phase' = "ReconnectScheduled"

\* a handleDisconnect that computes the delay before it counts the attempt
handleDisconnect_delayBefore ==
    IF reconnectAttempts >= maxReconnectAttempts
    THEN /\ phase' = "Failed"
         /\ UNCHANGED <<reconnectAttempts, pendingReconnects, reconnectDelay>>
    ELSE /\ reconnectAttempts' = reconnectAttempts + 1
         /\ reconnectDelay' = Min(1000 * Pow(2, reconnectAttempts), 30000)
         /\ pendingReconnects' = pendingReconnects + 1
         /\ phase' = "ReconnectScheduled"

\* handleDisconnect() up to its await of the delay
handleDisconnect ==
    IF reconnectAttempts >= maxReconnectAttempts
    THEN /\ phase' = "Failed"
         /\ UNCHANGED <<reconnectAttempts, pendingReconnects, reconnectDelay>>
    ELSE /\ reconnectAttempts' = reconnectAttempts + 1
         /\ reconnectDelay' = Min(1000 * Pow(2, reconnectAttempts + 1), 30000)
         /\ pendingReconnects' = pendingReconnects + 1
         /\ phase' = "ReconnectScheduled"

\* the 'disconnected' handler, up to the await of handleDisconnect
onDisconnected ==
    /\ hasClient
    /\ disconnectsSinceReady < MaxDisconnects
    /\ reconnectAttempts < maxReconnectAttempts => pendingReconnects < MaxPending
    /\ disconnectsSinceReady' = disconnectsSinceReady + 1
    /\ isClientReady' = FALSE
    /\ handleDisconnect
    /\ UNCHANGED <<hasClient, initsInFlight, initRaised>>

\* 'disconnected'
OnDisconnected ==
    /\ onDisconnected
    /\ UNCHANGED notClient

\* the delay of a handleDisconnect ends: it calls initialize()
ReconnectTimerFires ==
    /\ pendingReconnects > 0
    /\ initsInFlight < MaxInits
    /\ pendingReconnects' = pendingReconnects - 1
    /\ initialize
    /\ UNCHANGED <<reconnectAttempts, reconnectDelay, disconnectsSinceReady>>
    /\ UNCHANGED notClient

\* a getClient() that also refuses a client that is not ready
getClient_ready ==
    IF ~hasClient \/ ~isClientReady THEN "Client not initialized" ELSE "client"

\* getClient(): the client, or the message of the Error it throws
getClient ==
    IF ~hasClient THEN "Client not initialized" ELSE "client"

\* getClientInfo(): the info of the client, or the message of the Error it throws
getClientInfo ==
    IF ~hasClient \/ ~isClientReady THEN "Client not ready" ELSE "info"

ClientNext ==
    \/ MainInitialize
    \/ \E ok \in BOOLEAN : InitializeSettles(ok)
    \/ OnQr
    \/ OnReady
    \/ OnAuthFailure
    \/ OnDisconnected
    \/ ReconnectTimerFires

(***************************************************************************)
(* StateManager                                                            *)
(* The file system calls are the synchronous ones, so every operation runs *)
(* to its end without yielding.  Only the two counters of BotState are     *)
(* kept; a file is missing, unparseable, or the JSON text of a state.      *)
(***************************************************************************)
NoFile == [kind |-> "missing", messageCount |-> 0, errorCount |-> 0]

UnparseableFile == [kind |-> "unparseable", messageCount |-> 0, errorCount |-> 0]

\* codes for the values of a counter field that are not numbers: a field that
\* is not there, the NaN that incrementing it gives, and the null that
\* JSON.stringify writes for NaN
Undefined == -1001

NaN == -1002

Null == -1003

\* v++ on a counter field: ToNumber(v) + 1
increment(v) ==
    IF v = Undefined \/ v = NaN THEN NaN
    ELSE IF v = Null THEN 1
    ELSE v + 1

\* the JSON text of one counter field; an undefined one is left out
jsonOf(v) == IF v = NaN THEN Null ELSE v

\* JSON.stringify(this.state, null, 2)
stringify(s) ==
    [kind |-> "json", messageCount |-> jsonOf(s.messageCount),
     errorCount |-> jsonOf(s.errorCount)]

\* JSON.parse(stateData) of a file that parses
parse(f) == [messageCount |-> f.messageCount, errorCount |-> f.errorCount]

\* what bot-state.json holds when the process starts
PersistedFiles ==
    {NoFile, UnparseableFile, stringify([messageCount |-> 2, errorCount |-> 1])}

\* state files no saveState of this program has written: an object without
\* the counter fields, and one whose counters are a negative number and null
MalformedFiles ==
    { [kind |-> "json", messageCount |-> Undefined, errorCount |-> Undefined],
      [kind |-> "json", messageCount |-> -2, errorCount |-> Null] }

getDefaultState == [messageCount |-> 0, errorCount |-> 0]

StateInit ==
    /\ state = getDefaultState
    /\ file \in PersistedFiles \cup MalformedFiles
    /\ autoSave = FALSE
    /\ lastOp = "none"

\* loadState(): a missing file or a throwing parse keeps the state in memory
loadState ==
    state' = IF file.kind = "json" THEN parse(file) ELSE state

\* a saveState() that also starts the counters afresh
saveState_resets(written) ==
    /\ file' = IF written THEN stringify(state) ELSE file
    /\ state' = getDefaultState

\* saveState(): writes the snapshot; a failing write is logged and swallowed
saveState(written) ==
    /\ file' = IF written THEN stringify(state) ELSE file
    /\ UNCHANGED state

LoadState ==
    /\ loadState
    /\ lastOp' = "load"
    /\ UNCHANGED <<file, autoSave>>
    /\ UNCHANGED notState

SaveState(written) ==
    /\ saveState(written)
    /\ lastOp' = "save"
    /\ UNCHANGED autoSave
    /\ UNCHANGED notState

IncrementMessageCount ==
    /\ state.messageCount < MaxCount
    /\ state' = [state EXCEPT !.messageCount = increment(@)]
    /\ lastOp' = "incrementMessageCount"
    /\ UNCHANGED <<file, autoSave>>
    /\ UNCHANGED notState

IncrementErrorCount ==
    /\ state.errorCount < MaxCount
    /\ state' = [state EXCEPT !.errorCount = increment(@)]
    /\ lastOp' = "incrementErrorCount"
    /\ UNCHANGED <<file, autoSave>>
    /\ UNCHANGED notState

ResetState ==
    /\ state' = getDefaultState
    /\ lastOp' = "reset"
    /\ UNCHANGED <<file, autoSave>>
    /\ UNCHANGED notState

\* startAutoSave(): main calls it once
StartAutoSave ==
    /\ ~autoSave
    /\ autoSave' = TRUE
    /\ lastOp' = "startAutoSave"
    /\ UNCHANGED <<state, file>>
    /\ UNCHANGED notState

\* the interval of startAutoSave fires
AutoSaveTick(written) ==
    /\ autoSave
    /\ saveState(written)
    /\ lastOp' = "autoSave"
    /\ UNCHANGED autoSave
    /\ UNCHANGED notState

StateNext ==
    \/ LoadState
    \/ \E written \in BOOLEAN : SaveState(written)
    \/ IncrementMessageCount
    \/ IncrementErrorCount
    \/ ResetState
    \/ StartAutoSave
    \/ \E written \in BOOLEAN : AutoSaveTick(written)

(***************************************************************************)
(* main and ShutdownHandler                                                *)
(* A continuation that follows the await of an already settled promise     *)
(* runs before any event or timer callback, so it belongs to the action    *)
(* that reached the await.                                                  *)
(***************************************************************************)
NotExited == -1

ProcessInit ==
    /\ mainPc = "start"
    /\ handlersSet = FALSE
    /\ monitoring = FALSE
    /\ isShuttingDown = FALSE
    /\ shutdownPc = "idle"
    /\ exitCode = 0
    /\ exitStatus = NotExited
    /\ shutdownCalls = 0
    /\ shutdownCause = "none"
    /\ stepRaised = FALSE
    /\ shutdownSaves = 0
    /\ destroyCalls = 0
    /\ exitTimers = 0
    /\ lateDisconnect = FALSE

\* process.exit has not been called
Alive == exitStatus = NotExited

\* what a gracefulShutdown that passes its guard assigns
shutdownEffects ==
    <<isShuttingDown, monitoring, state, file, lastOp, shutdownPc, exitCode,
      shutdownCause, shutdownSaves, destroyCalls, exitTimers>>

\* what a call of gracefulShutdown assigns
shutdownVars == <<shutdownEffects, shutdownCalls>>

\* a gracefulShutdown that does not persist the counters
gracefulShutdown_noSave(code, written, cause) ==
    /\ shutdownCalls' = shutdownCalls + 1
    /\ IF isShuttingDown
       THEN UNCHANGED shutdownEffects
       ELSE /\ isShuttingDown' = TRUE
            /\ monitoring' = FALSE
            /\ UNCHANGED <<state, file, lastOp, shutdownSaves>>
            /\ exitCode' = code
            /\ shutdownCause' = cause
            /\ shutdownPc' = IF hasClient THEN "destroy" ELSE "grace"
            /\ destroyCalls' = destroyCalls + (IF hasClient THEN 1 ELSE 0)
            /\ exitTimers' = exitTimers + (IF hasClient THEN 0 ELSE 1)

\* a gracefulShutdown without the isShuttingDown guard
gracefulShutdown_noGuard(code, written, cause) ==
    /\ shutdownCalls' = shutdownCalls + 1
    /\ isShuttingDown' = TRUE
    /\ monitoring' = FALSE
    /\ saveState(written)
    /\ lastOp' = "save"
    /\ shutdownSaves' = shutdownSaves + 1
    /\ exitCode' = code
    /\ shutdownCause' = cause
    /\ shutdownPc' = IF hasClient THEN "destroy" ELSE "grace"
    /\ destroyCalls' = destroyCalls + (IF hasClient THEN 1 ELSE 0)
    /\ exitTimers' = exitTimers + (IF hasClient THEN 0 ELSE 1)

\* gracefulShutdown(code) up to await this.client.destroy() inside
\* clientManager.disconnect(), or to the setTimeout of the finally block when
\* there is no client; cause names the caller
gracefulShutdown(code, written, cause) ==
    /\ shutdownCalls' = shutdownCalls + 1
    /\ IF isShuttingDown
       THEN UNCHANGED shutdownEffects
       ELSE /\ isShuttingDown' = TRUE
            /\ monitoring' = FALSE
            /\ saveState(written)
            /\ lastOp' = "save"
            /\ shutdownSaves' = shutdownSaves + 1
            /\ exitCode' = code
            /\ shutdownCause' = cause
            /\ shutdownPc' = IF hasClient THEN "destroy" ELSE "grace"
            /\ destroyCalls' = destroyCalls + (IF hasClient THEN 1 ELSE 0)
            /\ exitTimers' = exitTimers + (IF hasClient THEN 0 ELSE 1)

\* main() from its start to await clientManager.initialize(); a configuration
\* that does not load ends the process before a ShutdownHandler exists
MainStart(configOk) ==
    /\ Alive
    /\ mainPc = "start"
    /\ IF configOk
       THEN /\ loadState
            /\ autoSave' = TRUE
            /\ lastOp' = "startAutoSave"
            /\ monitoring' = TRUE
            /\ handlersSet' = TRUE
            /\ initialize
            /\ mainPc' = "initialize"
            /\ UNCHANGED <<file, exitStatus>>
       ELSE /\ exitStatus' = 1
            /\ mainPc' = "ended"
            /\ UNCHANGED <<state, file, autoSave, lastOp, monitoring, handlersSet,
                           hasClient, initsInFlight, phase, isClientReady,
                           initRaised>>
    /\ UNCHANGED <<reconnectAttempts, pendingReconnects, reconnectDelay,
                   disconnectsSinceReady, isShuttingDown, shutdownPc, exitCode>>
    /\ UNCHANGED <<shutdownCalls, shutdownCause, stepRaised, shutdownSaves,
                   destroyCalls, exitTimers, lateDisconnect>>
    /\ UNCHANGED notProcess

\* the initialize() that main awaits settles; main goes on to the first test
\* of waitForClientReady, or to its catch block
MainInitializeSettles(ok, written) ==
    /\ Alive
    /\ mainPc = "initialize"
    /\ initsInFlight > 0
    /\ initsInFlight' = initsInFlight - 1
    /\ initRaised' = ~ok
    /\ IF ok
       THEN /\ mainPc' = IF isClientReady THEN "running" ELSE "polling"
            /\ UNCHANGED shutdownVars
       ELSE /\ mainPc' = "ended"
            /\ gracefulShutdown(1, written, "startup")
    /\ UNCHANGED <<hasClient, isClientReady, reconnectAttempts, pendingReconnects,
                   reconnectDelay, phase, disconnectsSinceReady>>
    /\ UNCHANGED <<autoSave, handlersSet, exitStatus, stepRaised, lateDisconnect>>
    /\ UNCHANGED notProcess

\* a waitForClientReady whose timeout shuts down with code 0
PollTick_codeZero(timedOut, written) ==
    /\ Alive
    /\ mainPc = "polling"
    /\ isClientReady \/ timedOut
    /\ IF isClientReady
       THEN /\ mainPc' = "running"
            /\ UNCHANGED shutdownVars
       ELSE /\ mainPc' = "ended"
            /\ gracefulShutdown(0, written, "startup")
    /\ UNCHANGED <<autoSave, handlersSet, exitStatus, stepRaised, lateDisconnect>>
    /\ UNCHANGED cvars
    /\ UNCHANGED notProcess

\* a one second sleep of waitForClientReady ends: the client is ready and main
\* starts the relay service, or the 120 seconds are over and main's catch
\* block shuts down
PollTick(timedOut, written) ==
    /\ Alive
    /\ mainPc = "polling"
    /\ isClientReady \/ timedOut
    /\ IF isClientReady
       THEN /\ mainPc' = "running"
            /\ UNCHANGED shutdownVars
       ELSE /\ mainPc' = "ended"
            /\ gracefulShutdown(1, written, "startup")
    /\ UNCHANGED <<autoSave, handlersSet, exitStatus, stepRaised, lateDisconnect>>
    /\ UNCHANGED cvars
    /\ UNCHANGED notProcess

\* SIGINT or SIGTERM
OnSignal(written) ==
    /\ Alive
    /\ handlersSet
    /\ shutdownCalls < MaxShutdownCalls
    /\ gracefulShutdown(0, written, "signal")
    /\ UNCHANGED <<autoSave, mainPc, handlersSet, exitStatus, stepRaised,
                   lateDisconnect>>
    /\ UNCHANGED cvars
    /\ UNCHANGED notProcess

\* uncaughtException or unhandledRejection
OnUncaught(written) ==
    /\ Alive
    /\ handlersSet
    /\ shutdownCalls < MaxShutdownCalls
    /\ gracefulShutdown(1, written, "uncaught")
    /\ UNCHANGED <<autoSave, mainPc, handlersSet, exitStatus, stepRaised,
                   lateDisconnect>>
    /\ UNCHANGED cvars
    /\ UNCHANGED notProcess

\* a catch block that leaves the exit code as requested
DestroySettles_keepsCode(ok) ==
    /\ Alive
    /\ shutdownPc = "destroy"
    /\ shutdownPc' = "grace"
    /\ exitTimers' = exitTimers + 1
    /\ IF ok
       THEN isClientReady' = FALSE /\ UNCHANGED <<exitCode, stepRaised>>
       ELSE stepRaised' = TRUE /\ UNCHANGED <<exitCode, isClientReady>>
    /\ UNCHANGED <<hasClient, reconnectAttempts, pendingReconnects, initsInFlight,
                   reconnectDelay, phase, disconnectsSinceReady, initRaised>>
    /\ UNCHANGED <<mainPc, handlersSet, monitoring, isShuttingDown, exitStatus,
                   shutdownCalls, shutdownCause, shutdownSaves, destroyCalls,
                   lateDisconnect>>
    /\ UNCHANGED svars
    /\ UNCHANGED notProcess

\* client.destroy() settles: disconnect() lowers isClientReady, or the catch
\* block of gracefulShutdown sets the exit code; then the finally block
DestroySettles(ok) ==
    /\ Alive
    /\ shutdownPc = "destroy"
    /\ shutdownPc' = "grace"
    /\ exitTimers' = exitTimers + 1
    /\ IF ok
       THEN isClientReady' = FALSE /\ UNCHANGED <<exitCode, stepRaised>>
       ELSE exitCode' = 1 /\ stepRaised' = TRUE /\ UNCHANGED isClientReady
    /\ UNCHANGED <<hasClient, reconnectAttempts, pendingReconnects, initsInFlight,
                   reconnectDelay, phase, disconnectsSinceReady, initRaised>>
    /\ UNCHANGED <<mainPc, handlersSet, monitoring, isShuttingDown, exitStatus,
                   shutdownCalls, shutdownCause, shutdownSaves, destroyCalls,
                   lateDisconnect>>
    /\ UNCHANGED svars
    /\ UNCHANGED notProcess

\* the one second timer of the finally block: process.exit(exitCode)
ExitTimerFires ==
    /\ Alive
    /\ shutdownPc = "grace"
    /\ shutdownPc' = "exited"
    /\ exitStatus' = exitCode
    /\ UNCHANGED <<mainPc, handlersSet, monitoring, isShuttingDown, exitCode,
                   shutdownCalls, shutdownCause, stepRaised, shutdownSaves,
                   destroyCalls, exitTimers, lateDisconnect>>
    /\ UNCHANGED <<cvars, svars>>
    /\ UNCHANGED notProcess

\* the callbacks of the client manager and of the auto-save interval run as
\* long as the process does
ProcessAutoSave(written) == Alive /\ AutoSaveTick(written)

ProcessQr == Alive /\ OnQr

ProcessReady == Alive /\ OnReady

ProcessAuthFailure == Alive /\ OnAuthFailure

\* 'disconnected' while the process runs
ProcessDisconnected ==
    /\ Alive
    /\ onDisconnected
    /\ lateDisconnect' = (lateDisconnect \/ isShuttingDown)
    /\ UNCHANGED <<mainPc, handlersSet, monitoring, isShuttingDown, shutdownPc,
                   exitCode, exitStatus, shutdownCalls, shutdownCause, stepRaised,
                   shutdownSaves, destroyCalls, exitTimers>>
    /\ UNCHANGED svars
    /\ UNCHANGED notProcess

ProcessReconnectTimer == Alive /\ ReconnectTimerFires

\* an initialize() called by handleDisconnect settles
ProcessInitializeSettles(ok) ==
    /\ Alive
    /\ mainPc = "initialize" => initsInFlight > 1
    /\ InitializeSettles(ok)

ProcessNext ==
    \/ \E configOk \in BOOLEAN : MainStart(configOk)
    \/ \E ok \in BOOLEAN, written \in BOOLEAN : MainInitializeSettles(ok, written)
    \/ \E timedOut \in BOOLEAN, written \in BOOLEAN : PollTick(timedOut, written)
    \/ \E written \in BOOLEAN : OnSignal(written)
    \/ \E written \in BOOLEAN : OnUncaught(written)
    \/ \E ok \in BOOLEAN : DestroySettles(ok)
    \/ ExitTimerFires
    \/ \E written \in BOOLEAN : ProcessAutoSave(written)
    \/ ProcessQr
    \/ ProcessReady
    \/ ProcessAuthFailure
    \/ ProcessDisconnected
    \/ ProcessReconnectTimer
    \/ \E ok \in BOOLEAN : ProcessInitializeSettles(ok)

Init ==
    /\ QueueInit /\ ErrorInit /\ RelayInit /\ ClientInit /\ StateInit /\ ProcessInit
    /\ ConfigInit

\* retryAttempts and prefixA of the default configuration
DefaultConfig == maxRetries = DefaultMaxRetries /\ prefixA = "[From A]"

\* the default configuration, and no state file yet
InitDefault == Init /\ DefaultConfig /\ file = NoFile

\* any configuration, and no state file yet
InitFresh == Init /\ file = NoFile

\* the default configuration, over any state file a saveState has written
InitAnyFile == Init /\ DefaultConfig /\ file \in PersistedFiles

\* the default configuration, over a state file of another shape
InitAnyShape == Init /\ DefaultConfig /\ file \in MalformedFiles

SpecQueue == InitDefault /\ [][QueueNext]_vars

\* the queue with timers that fire: a sleep that has been started ends
SpecQueueFair ==
    /\ InitDefault
    /\ [][QueueNext]_vars
    /\ WF_vars(RateWaitDone)
    /\ WF_vars(MsgWaitDone)

SpecClassify == InitDefault /\ [][ClassifyNext]_vars

SpecRetry == InitFresh /\ [][RetryNext]_vars

SpecRelay == InitDefault /\ [][RelayNext]_vars

SpecClient == InitDefault /\ [][ClientNext]_vars

\* the StateManager operations in any order, over any state file
SpecState == InitAnyFile /\ [][StateNext]_vars

\* the StateManager operations in any order, over a malformed state file
SpecStateShapes == InitAnyShape /\ [][StateNext]_vars

\* loadConfig on any pair of numbers, then lookups
SpecConfig == InitDefault /\ [][ConfigNext]_vars

\* the process from the start of main() to process.exit
SpecProcess == InitDefault /\ [][ProcessNext]_vars

\* the process with a transport that is never disconnected
ShutdownNext ==
    \/ \E configOk \in BOOLEAN : MainStart(configOk)
    \/ \E ok \in BOOLEAN, written \in BOOLEAN : MainInitializeSettles(ok, written)
    \/ \E timedOut \in BOOLEAN, written \in BOOLEAN : PollTick(timedOut, written)
    \/ \E written \in BOOLEAN : OnSignal(written)
    \/ \E written \in BOOLEAN : OnUncaught(written)
    \/ \E ok \in BOOLEAN : DestroySettles(ok)
    \/ ExitTimerFires
    \/ \E written \in BOOLEAN : ProcessAutoSave(written)
    \/ ProcessQr
    \/ ProcessReady
    \/ ProcessAuthFailure

\* that process as scheduled by Node.js: the destroy() of a shutdown settles
\* and the exit timer fires
SpecShutdownFair ==
    /\ InitDefault
    /\ [][ShutdownNext]_vars
    /\ WF_vars(\E ok \in BOOLEAN : DestroySettles(ok))
    /\ WF_vars(ExitTimerFires)

ActiveDrains == rateWaiters + msgWaiters

\* C1: with the rate-limit gate never activated and no clear(), the jobs
\* popped by the drain followed by the jobs still buffered are exactly the
\* enqueued jobs in enqueue order: nothing is skipped, duplicated or reordered.
FifoExactlyOnce ==
    (~everRateLimited /\ clearCount = 0) => popped \o queue = enqueued

FifoWitness ==
    /\ ~everRateLimited /\ clearCount = 0
    /\ Len(popped) >= 3
    /\ Len(queue) >= 1

\* C2: at most one processQueue coroutine exists at any time, whatever the
\* interleaving of enqueue calls and timer completions: an enqueue that runs
\* while the drain is suspended starts no second drain.
OneDrain == ActiveDrains <= 1

\* an enqueue has run while the drain was suspended: a job waits behind it
OneDrainWitness ==
    /\ ActiveDrains = 1
    /\ Len(queue) >= 2
    /\ Len(popped) >= 1


(***************************************************************************)
(* Properties of MessageRelayService and ErrorHandler                      *)
(***************************************************************************)
\* the two characters are the same letter, whatever their case
SameLetter(c, d) ==
    \/ c = d
    \/ \E i \in 1..Len(UpperCaseLetters) :
          {c, d} = {UpperCaseLetters[i], LowerCaseLetters[i]}

\* p occurs in message at some position, letter case ignored
ContainsIgnoringCase(message, p) ==
    \E i \in 0..(Len(message) - Len(p)) :
        \A k \in 1..Len(p) : SameLetter(message[i + k], p[k])

HasNonRetryable(message) ==
    \E p \in Range(nonRetryablePatterns) : ContainsIgnoringCase(message, p)

HasRetryable(message) ==
    \E p \in Range(retryablePatterns) : ContainsIgnoringCase(message, p)

\* the run is under active delivery or retry
InFlight(r) == r.pc \in {"attempt", "backoff"}

\* the run has a transport send in progress
Sending(r) == r.pc = "attempt" /\ r.stage \in {"text", "media"}

\* C3: no transport send for a message is in progress while the relay of an
\* earlier message is still sending or waiting in a retry backoff.
OneRelayInFlight ==
    \A g, h \in Handlers :
        (g < h /\ InFlight(runs[g])) => ~Sending(runs[h])

\* C4: a retryWithBackoff call invokes the operation at most maxRetries+1
\* times (4 with the default 3), and once an invocation has succeeded the
\* call has returned: no further invocation and no delay follow the success.
RetryAttemptBound ==
    \A h \in Handlers :
        LET r == runs[h] IN
        /\ r.calls <= maxRetries + 1
        /\ (maxRetries = DefaultMaxRetries) => r.calls <= 4
        /\ r.result = "returned" =>
              /\ r.pc \in {"done", "apology"}
              /\ Len(r.raised) = r.calls - 1
              /\ Len(r.sleeps) = r.calls - 1

\* the default budget, spent to the last attempt, which succeeds
RetryAttemptBoundWitness ==
    /\ maxRetries = DefaultMaxRetries
    /\ runs[1].result = "returned"
    /\ runs[1].calls = 4

\* C5: a retryWithBackoff call whose every attempt failed with an error that
\* holds no non-retryable pattern has made exactly maxRetries+1 attempts when
\* it throws, and throws the error of the last attempt.
RetryExhaustion ==
    \A h \in Handlers :
        LET r == runs[h] IN
        (/\ r.result = "thrown"
         /\ \A i \in 1..Len(r.raised) : ~HasNonRetryable(r.raised[i]))
        => /\ r.calls = maxRetries + 1
           /\ Len(r.raised) = maxRetries + 1
           /\ r.thrown = r.raised[Len(r.raised)]

\* four failed attempts under the default budget, the last error differing
\* from the first
RetryExhaustionWitness ==
    /\ maxRetries = DefaultMaxRetries
    /\ runs[1].result = "thrown"
    /\ runs[1].calls = 4
    /\ \A i \in 1..Len(runs[1].raised) : ~HasNonRetryable(runs[1].raised[i])
    /\ runs[1].raised[1] # runs[1].raised[4]

\* C6: an attempt that fails with an error holding a non-retryable pattern is
\* the last one of its retryWithBackoff call: the call throws that error at
\* once, with no delay after it and no further attempt.
NonRetryableAborts ==
    \A h \in Handlers :
        LET r == runs[h] IN
        \A i \in 1..Len(r.raised) :
            HasNonRetryable(r.raised[i]) =>
                /\ i = Len(r.raised)
                /\ r.result = "thrown"
                /\ r.thrown = r.raised[i]
                /\ r.calls = i
                /\ Len(r.sleeps) = i - 1

\* a non-retryable error on the second attempt with budget left
NonRetryableAbortsWitness ==
    /\ maxRetries >= DefaultMaxRetries
    /\ Len(runs[1].raised) = 2
    /\ HasNonRetryable(runs[1].raised[2])
    /\ runs[1].result = "thrown"

\* C7: shouldRetry returns false exactly for the messages that hold one of
\* the six non-retryable patterns, letter case ignored, whether or not a
\* retryable pattern occurs too; every other message is retryable.
ClassificationByPattern ==
    errChecked => (errVerdict = ~HasNonRetryable(errInput))

\* a message with a retryable pattern followed by a capitalised non-retryable one
ClassificationWitness ==
    /\ errChecked
    /\ errInput = retryablePatterns[1] \o <<" ">> \o <<"B", "a", "n", "n", "e", "d">>
    /\ HasRetryable(errInput)
    /\ errVerdict = FALSE

DefaultDelays == <<1000, 2000, 4000, 8000, 16000, 30000, 30000>>

\* C8: the n-th delay (from 0) of a retryWithBackoff call is
\* min(initialDelay * multiplier^n, maxDelay): 1000, 2000, 4000, 8000, 16000,
\* 30000, 30000, ...; the delays never decrease and never exceed maxDelay.
BackoffDelays ==
    \A h \in Handlers :
        LET s == runs[h].sleeps IN
        \A i \in 1..Len(s) :
            /\ s[i] = calculateBackoff(i - 1)
            /\ s[i] = Min(initialDelay * backoffMultiplier ^ (i - 1), maxDelay)
            /\ s[i] = (IF i <= Len(DefaultDelays) THEN DefaultDelays[i] ELSE 30000)
            /\ s[i] <= maxDelay
            /\ i > 1 => s[i - 1] <= s[i]

\* the delays up to the second capped one
BackoffDelaysWitness ==
    /\ Len(runs[1].sleeps) = 7
    /\ runs[1].sleeps[7] = 30000

(***************************************************************************)
(* Properties of WhatsAppClientManager                                     *)
(***************************************************************************)
\* the edges of the table of section 4.3; Disconnected is left at once, so
\* Ready -> ReconnectScheduled is the edge a 'disconnected' event takes
TableEdges ==
    { <<"Uninitialized", "Initializing">>,
      <<"Disconnected", "Initializing">>,
      <<"Initializing", "AwaitingCredential">>,
      <<"Initializing", "Ready">>,
      <<"AwaitingCredential", "Ready">>,
      <<"Initializing", "Failed">>,
      <<"Ready", "Disconnected">>,
      <<"Disconnected", "ReconnectScheduled">>,
      <<"Ready", "ReconnectScheduled">>,
      <<"ReconnectScheduled", "Initializing">>,
      <<"ReconnectScheduled", "Failed">> }

\* the edges the handlers take besides: they run in whatever state an event
\* finds the manager
HandlerEdges ==
    { <<"Initializing", "ReconnectScheduled">>,
      <<"AwaitingCredential", "ReconnectScheduled">>,
      <<"Failed", "ReconnectScheduled">>,
      <<"AwaitingCredential", "Failed">>,
      <<"Ready", "Failed">>,
      <<"AwaitingCredential", "Initializing">>,
      <<"Failed", "Initializing">>,
      <<"ReconnectScheduled", "Ready">>,
      <<"Failed", "Ready">> }

DisconnectHandled == disconnectsSinceReady' = disconnectsSinceReady + 1

\* C10, as claimed: the fifth disconnect in a row without a ready leaves the
\* manager Failed and schedules no reconnection.
FiveDisconnectsFail ==
    [][(DisconnectHandled /\ disconnectsSinceReady' = 5)
          => /\ ConnectionState' = "Failed"
             /\ pendingReconnects' = pendingReconnects]_vars

\* C10, amended: each of the first five disconnects in a row without a ready
\* schedules a reconnection; the sixth, and any later one, leaves the manager
\* Failed and schedules none.
SixDisconnectsFail ==
    [][DisconnectHandled =>
          IF disconnectsSinceReady' <= maxReconnectAttempts
          THEN /\ ConnectionState' = "ReconnectScheduled"
               /\ pendingReconnects' = pendingReconnects + 1
               /\ reconnectAttempts' = disconnectsSinceReady'
          ELSE /\ ConnectionState' = "Failed"
               /\ pendingReconnects' = pendingReconnects
               /\ reconnectAttempts' = maxReconnectAttempts]_vars

\* the sixth disconnect in a row has been handled
SixDisconnectsWitness ==
    /\ disconnectsSinceReady = 6
    /\ ConnectionState = "Failed"
    /\ reconnectAttempts = maxReconnectAttempts

\* C11: every step that leaves the session ready leaves the reconnect counter
\* at 0, and a disconnect handled while the session is ready is the first of
\* a fresh budget: it schedules reconnection attempt 1 of 5.
ReadyRestoresBudget ==
    [][/\ isClientReady' => reconnectAttempts' = 0
       /\ (isClientReady /\ DisconnectHandled)
             => /\ reconnectAttempts' = 1
                /\ maxReconnectAttempts - reconnectAttempts' = 4
                /\ pendingReconnects' = pendingReconnects + 1
                /\ ConnectionState' = "ReconnectScheduled"]_vars

\* 'ready' has been handled after all five attempts had been used (the last
\* delay asked for is the capped one of attempt 5)
ReadyAfterAttemptsWitness ==
    /\ isClientReady
    /\ reconnectDelay = 30000
    /\ reconnectAttempts = 0

\* C12, as claimed: getClient() returns the session exactly when the
\* connection state is Ready and throws in every other state.
GetClientOnlyWhenReady ==
    (getClient = "client") <=> (ConnectionState = "Ready")

\* C12, amended: getClient() throws exactly while no client has been created
\* (Uninitialized); once initialize() has run it returns the client in every
\* state, Ready or not.
GetClientOnceInitialized ==
    /\ (getClient = "Client not initialized") <=> (ConnectionState = "Uninitialized")
    /\ ConnectionState \in {"Initializing", "AwaitingCredential", "Ready",
                            "ReconnectScheduled", "Failed"} => getClient = "client"

\* the manager has given up and getClient() still hands out the client
GetClientWhileFailedWitness ==
    /\ ConnectionState = "Failed"
    /\ reconnectAttempts = maxReconnectAttempts
    /\ getClient = "client"

\* C13: Failed is terminal: once the connection state is Failed, no event and
\* no timer completion moves it to another state.
FailedIsTerminal ==
    [][ConnectionState = "Failed" => ConnectionState' = "Failed"]_vars

\* C14: once main has started the relay service, a step that takes the
\* connection state to Failed invokes the graceful shutdown (nothing else
\* would: after startup only a signal or an uncaught error calls it).
FailedInvokesShutdown ==
    [][(mainPc = "running" /\ ConnectionState # "Failed" /\ ConnectionState' = "Failed")
          => isShuttingDown']_vars

(***************************************************************************)
(* Properties of the relayed payloads and of the counters                  *)
(***************************************************************************)
\* the other endpoint of the pair
Counterpart(f) == IF f = "A" THEN "B" ELSE "A"

\* the prefix configured for the endpoint
SenderPrefix(f) == IF f = "A" THEN prefixA ELSE prefixB

\* the run handles a message of a mapped endpoint
Mapped(r) == r.from \in {"A", "B"}

\* C15, as claimed: every send of a text run from a mapped endpoint goes to
\* the counterpart with payload prefix, one space, body; a relayed run has
\* made that send.
TextPrefixSpaceBody ==
    \A h \in Handlers :
        LET r == runs[h]
            expected == textSend(Counterpart(r.from),
                                 SenderPrefix(r.from) \o " " \o r.body)
        IN  (Mapped(r) /\ ~r.hasMedia)
               => /\ r.sends \subseteq {expected}
                  /\ r.outcome = "relayed" => r.sends = {expected}

\* C15, amended: every send of a text run from a mapped endpoint goes to the
\* counterpart; its payload is prefix, one space, body when the prefix is not
\* empty, and the body alone when it is; a relayed run has made that send.
TextPrefixedUnlessEmpty ==
    \A h \in Handlers :
        LET r == runs[h]
            payload == IF SenderPrefix(r.from) = "" THEN r.body
                       ELSE SenderPrefix(r.from) \o " " \o r.body
            expected == textSend(Counterpart(r.from), payload)
        IN  (Mapped(r) /\ ~r.hasMedia)
               => /\ r.sends \subseteq {expected}
                  /\ r.outcome = "relayed" => r.sends = {expected}

\* B's text has reached A under B's prefix, on a retried attempt
TextRelayedWitness ==
    /\ runs[1].outcome = "relayed"
    /\ runs[1].from = "B"
    /\ runs[1].calls >= 2
    /\ runs[1].sends = {textSend("A", "[From B] hello")}

\* C16: a run for a sender with no counterpart makes no send, starts no
\* retry loop, calls no error handler, and touches no counter: once the
\* lookup is done it has ended as ignored.
UnmappedIgnored ==
    \A h \in Handlers :
        LET r == runs[h] IN
        (~Mapped(r) /\ r.pc \notin {"idle", "contact"})
           => /\ r.pc = "done" /\ r.outcome = "ignored"
              /\ r.sends = {}
              /\ r.result = "none" /\ r.handled = 0
              /\ state = getDefaultState

\* a message of a stranger has been dropped
UnmappedWitness ==
    /\ runs[1].from = "X"
    /\ runs[1].outcome = "ignored"

\* the media run r has failed for good
MediaFailed(r) ==
    /\ Mapped(r) /\ r.hasMedia
    /\ \/ r.result = "thrown"
       \/ r.stage = "download" /\ r.result = "returned"

\* C17: once a media relay has failed for good (download or send), the
\* apology has been sent to the original sender; when the failure is in the
\* download, nothing has been sent to the counterpart.
MediaFailureApologizes ==
    \A h \in Handlers :
        LET r == runs[h] IN
        MediaFailed(r)
           => /\ r.pc \in {"apology", "done"}
              /\ textSend(r.from, ApologyText) \in r.sends
              /\ r.stage = "download"
                    => \A s \in r.sends : s.to # Counterpart(r.from)

\* a download has failed after retries and the sender has been told
MediaFailureWitness ==
    /\ runs[1].outcome = "apologized"
    /\ runs[1].stage = "download"
    /\ runs[1].result = "thrown"
    /\ Len(runs[1].raised) >= 2
    /\ runs[1].sends = {textSend(runs[1].from, ApologyText)}

\* C18: a text run sends nothing to the original sender, whatever its end;
\* a failed one has made its sends to the counterpart only.
TextFailureSilent ==
    \A h \in Handlers :
        LET r == runs[h] IN
        (Mapped(r) /\ ~r.hasMedia)
           => /\ \A s \in r.sends : s.to # r.from /\ s.text # ApologyText
              /\ r.outcome \in {"none", "relayed", "failed"}

\* a text relay has failed for good after its retries
TextFailureWitness ==
    /\ runs[1].outcome = "failed"
    /\ ~runs[1].hasMedia
    /\ runs[1].handled = 1
    /\ Len(runs[1].raised) >= 2
    /\ Cardinality(runs[1].sends) = 1

\* C19: a step in which a run ends relayed raises messageCount by one, and a
\* step in which a run ends in terminal failure raises errorCount by one.
RelayOutcomesCounted ==
    [][\A h \in Handlers :
          /\ (runs[h].outcome = "none" /\ runs'[h].outcome = "relayed")
                => state'.messageCount = state.messageCount + 1
          /\ (runs[h].outcome = "none" /\ runs'[h].outcome \in {"failed", "apologized"})
                => state'.errorCount = state.errorCount + 1]_vars

\* C20, as claimed: no StateManager operation other than reset lowers a
\* counter.
CountersNeverDecrease ==
    [][lastOp' # "reset"
          => /\ state'.messageCount >= state.messageCount
             /\ state'.errorCount >= state.errorCount]_vars

\* C20, amended: increments, save and auto-save ticks never lower a counter;
\* a load sets the counters to the persisted ones when the file parses (so
\* it lowers them by the increments not yet saved) and keeps them otherwise.
CountersDecreaseOnlyByLoad ==
    [][/\ lastOp' \in {"incrementMessageCount", "incrementErrorCount", "save",
                       "autoSave", "startAutoSave"}
          => /\ state'.messageCount >= state.messageCount
             /\ state'.errorCount >= state.errorCount
       /\ lastOp' = "load"
          => state' = IF file.kind = "json"
                      THEN [messageCount |-> file.messageCount,
                            errorCount |-> file.errorCount]
                      ELSE state]_vars

\* counters raised by increments have been persisted by an auto-save tick
CountersSavedWitness ==
    /\ lastOp = "autoSave"
    /\ file.kind = "json"
    /\ file.messageCount >= 3
    /\ state.errorCount >= 2

(***************************************************************************)
(* Properties of load, of reconnections, of the order of relays and of     *)
(* the drain                                                               *)
(***************************************************************************)
\* C21: a load leaves the fresh defaults when the file is missing or does
\* not parse, and the persisted counters when the file holds them.
LoadDefaultsOrPersisted ==
    [][lastOp' = "load"
          => state' = IF file.kind = "json"
                      THEN [messageCount |-> file.messageCount,
                            errorCount |-> file.errorCount]
                      ELSE [messageCount |-> 0, errorCount |-> 0]]_vars

\* reconnections pending (in their delay) or running (in initialize())
ReconnectsInFlight ==
    pendingReconnects + initsInFlight - (IF mainPc = "initialize" THEN 1 ELSE 0)

\* C24: at most one reconnection is pending or running at a time.
OneReconnectInFlight == ReconnectsInFlight <= 1

\* the step starts a fn() of run g: a first attempt, a retry, or the first
\* send after the download
AttemptStarts(g) ==
    /\ runs'[g].pc = "attempt"
    /\ runs[g].pc # "attempt" \/ runs'[g].stage # runs[g].stage

\* C25: while an earlier message's relay is suspended in a backoff, no
\* attempt is started for a message that arrived later.
BackoffBlocksLaterRelays ==
    [][\A h \in Handlers, g \in Handlers :
          (h < g /\ runs[h].pc = "backoff") => ~AttemptStarts(g)]_vars

\* C26: every job the drain has popped has been handed to the delivery
\* function, once and in pop order.
PoppedJobsDelivered == handedToDelivery = popped

\* the step schedules a reconnection
ReconnectScheduledStep ==
    DisconnectHandled /\ pendingReconnects' = pendingReconnects + 1

\* C30, as claimed: the delay of a reconnection is min(1000 * 2^n, 30000)
\* with n the attempts already made since the last ready, 1000 ms for the
\* first.
DelayFromAttemptsMade ==
    [][ReconnectScheduledStep
          => reconnectDelay' = Min(1000 * Pow(2, reconnectAttempts), 30000)]_vars

\* the delays of reconnection attempts 1 to 5
ReconnectDelays == <<2000, 4000, 8000, 16000, 30000>>

\* C30, amended: the delay of a reconnection is min(1000 * 2^n, 30000) with
\* n the number of the attempt being scheduled (1 for the first since the
\* last ready): 2000, 4000, 8000, 16000, 30000 ms.
DelayFromAttemptNumber ==
    [][ReconnectScheduledStep
          => /\ reconnectAttempts' = reconnectAttempts + 1
             /\ reconnectDelay' = ReconnectDelays[reconnectAttempts']
             /\ isClientReady => reconnectDelay' = 2000]_vars

\* the first reconnection after a ready waits 2000 ms, an earlier
\* reconnection still pending
FirstDelayWitness ==
    /\ ConnectionState = "ReconnectScheduled"
    /\ disconnectsSinceReady = 1
    /\ reconnectDelay = 2000
    /\ pendingReconnects >= 2

\* the step is an enqueue
EnqueueStep == Len(enqueued') = Len(enqueued) + 1

\* the drain ends only on an empty buffer and lowers the flag as it does; an
\* enqueue made when no drain is active starts one (or, the gate being
\* inactive, pops the job at once)
DrainStopsAndRestarts ==
    [][/\ (isProcessing /\ ~isProcessing') => (queue' = <<>> /\ ActiveDrains' = 0)
       /\ (EnqueueStep /\ ~isProcessing) => (isProcessing' /\ ActiveDrains' = 1)]_vars

\* C27, as claimed: with timers that fire, every enqueued job is eventually
\* popped; the drain ends only on an empty buffer, lowering the flag, and an
\* enqueue made after that starts a new drain.
EveryJobPopped ==
    /\ \A j \in 1..MaxJobs :
          (j \in Range(enqueued)) ~> (j \in Range(popped))
    /\ DrainStopsAndRestarts

\* C27, amended: with timers that fire, every enqueued job eventually leaves
\* the buffer, popped by the drain unless a clear() has discarded it first;
\* the drain ends only on an empty buffer, lowering the flag, and an enqueue
\* made after that starts a new drain.
EveryJobPoppedOrCleared ==
    /\ \A j \in 1..MaxJobs :
          (j \in Range(enqueued))
             ~> (j \in Range(popped) \/ (clearCount > 0 /\ j \notin Range(queue)))
    /\ [](clearCount = 0 => Range(enqueued) = Range(popped) \cup Range(queue))
    /\ DrainStopsAndRestarts

\* the drain has ended with every job popped, the last ones after a restart
\* under the rate-limit gate
DrainEndedWitness ==
    /\ ~isProcessing /\ ActiveDrains = 0
    /\ queue = <<>>
    /\ clearCount = 0
    /\ everRateLimited
    /\ Len(popped) >= 3 /\ popped = enqueued

\* C28: handleIncomingMessage completes normally for every message: a run
\* ends as ignored, relayed, failed or apologized, never by throwing to the
\* listener; a terminal relay failure goes straight to the handler's own
\* catch blocks, and a rejected contact lookup or apology send is absorbed.
NeverPropagates ==
    \A h \in Handlers :
        LET r == runs[h] IN
        /\ r.outcome \in {"none", "ignored", "relayed", "failed", "apologized"}
        /\ r.pc = "done" <=> r.outcome # "none"
        /\ r.result = "thrown" => r.pc \in {"apology", "done"}
        /\ r.outcome = "failed" => r.handled = 1
        /\ r.absorbed # {} => r.pc # "contact"

\* a run has completed although its contact lookup, its media relay and its
\* apology send all failed
AllAbsorbedWitness ==
    /\ runs[1].pc = "done"
    /\ runs[1].outcome = "apologized"
    /\ runs[1].result = "thrown"
    /\ runs[1].absorbed = {"contact", "apology"}


\* the steps of a shutdown come in the order the code gives them: the persist
\* and the call of destroy() in the step that sets isShuttingDown, then the
\* exit timer, then process.exit
ShutdownStepsInOrder ==
    /\ isShuttingDown =>
          /\ ~monitoring
          /\ shutdownSaves = 1
          /\ shutdownPc \in {"destroy", "grace", "exited"}
          /\ shutdownPc = "destroy" => destroyCalls = 1 /\ exitTimers = 0
          /\ shutdownPc \in {"grace", "exited"} => exitTimers = 1
    /\ destroyCalls <= shutdownSaves
    /\ exitTimers <= shutdownSaves
    /\ shutdownPc = "exited" <=> isShuttingDown /\ exitStatus # NotExited

\* C22 as stated: a graceful shutdown stops the auto-save of the counters,
\* persists the counters once, closes the transport, waits and terminates, so
\* that once shutdown has begun the only write of the counters is the single
\* shutdown persist, and the transport is not closed before that persist
NoAutoSaveAfterShutdown ==
    /\ ShutdownStepsInOrder
    /\ isShuttingDown => ~autoSave /\ lastOp = "save"

\* C22: a graceful shutdown stops memory monitoring, persists the counters
\* once, closes the transport, waits and terminates, in that order; the
\* transport is not closed before the counters are persisted; the auto-save
\* interval keeps running, so after shutdown has begun the counters are written
\* by the shutdown persist and by auto-save ticks only
ShutdownOrderKept ==
    /\ ShutdownStepsInOrder
    /\ isShuttingDown => autoSave /\ lastOp \in {"save", "autoSave"}

\* C22: an auto-save tick has written the counters during the grace period of
\* a shutdown that closed the transport
AutoSaveInGraceWitness ==
    /\ isShuttingDown
    /\ shutdownPc = "grace"
    /\ destroyCalls = 1
    /\ lastOp = "autoSave"

\* a call of gracefulShutdown made while a shutdown is in progress
RepeatedShutdownStep ==
    isShuttingDown /\ shutdownCalls' = shutdownCalls + 1

\* C23: a gracefulShutdown call made while a shutdown is in progress returns
\* without effect, so however many requests arrive the shutdown persists the
\* counters once, closes the transport at most once and sets the exit timer at
\* most once
ShutdownIdempotent ==
    /\ [](shutdownSaves <= 1 /\ destroyCalls <= 1 /\ exitTimers <= 1)
    /\ [][RepeatedShutdownStep =>
            UNCHANGED <<shutdownEffects, stepRaised, exitStatus, autoSave,
                        hasClient, isClientReady>>]_vars

\* C23: three shutdown requests were made and the process has exited after one
\* persist, one destroy() and one exit timer
RepeatedShutdownWitness ==
    /\ shutdownCalls >= 3
    /\ shutdownSaves = 1
    /\ destroyCalls = 1
    /\ exitTimers = 1
    /\ exitStatus # NotExited

\* C29 as stated: a process whose startup failed exits with code 1, and a
\* signal-triggered shutdown in which nothing raised and startup did not fail
\* exits with code 0
StartupFailureExitsOne ==
    exitStatus # NotExited =>
        /\ mainPc = "ended" => exitStatus = 1
        /\ mainPc # "ended" /\ shutdownCause = "signal" /\ ~stepRaised
               => exitStatus = 0

\* C29: a startup failure that finds no shutdown in progress exits with code
\* 1; one that finds a shutdown in progress leaves the code to that shutdown;
\* a signal-triggered shutdown exits with code 0 unless destroy() raised
StartupFailureExitsOneIfFirst ==
    exitStatus # NotExited =>
        /\ mainPc = "ended" /\ shutdownCause \in {"none", "startup"}
               => exitStatus = 1
        /\ shutdownCause = "signal"
               => exitStatus = IF stepRaised THEN 1 ELSE 0
        /\ shutdownCause = "uncaught" => exitStatus = 1

\* C29: the wait for ready ran out while the client was waiting for the QR
\* scan, and the process exited with code 1
StartupTimeoutWitness ==
    /\ mainPc = "ended"
    /\ shutdownCause = "startup"
    /\ phase = "AwaitingCredential"
    /\ ~stepRaised
    /\ exitStatus = 1


\* C31: a retryWithBackoff call is suspended once between two consecutive
\* attempts, for calculateBackoff(n) with n the index from 0 of the attempt
\* that has just failed: while the k-th attempt runs, and once the call has
\* ended after k attempts, it has been suspended k-1 times; while it is
\* suspended after the k-th attempt it has been suspended k times.
SuspendedOnceBetweenAttempts ==
    \A h \in Handlers :
        LET r == runs[h] IN
        /\ r.pc = "attempt" => Len(r.sleeps) = r.calls - 1 /\ r.attempt = r.calls - 1
        /\ r.pc = "backoff" =>
              /\ Len(r.sleeps) = r.calls
              /\ Len(r.raised) = r.calls
              /\ r.sleeps[r.calls] = calculateBackoff(r.attempt)
              /\ r.attempt = r.calls - 1
        /\ r.result \in {"returned", "thrown"} => Len(r.sleeps) = r.calls - 1
        /\ r.calls = 1 /\ r.pc = "attempt" => r.sleeps = <<>>

\* C31: a call that made three attempts and returned was suspended twice,
\* for 1000 and 2000 ms
ThreeAttemptsTwoSuspensionsWitness ==
    /\ runs[1].result = "returned"
    /\ runs[1].calls = 3
    /\ runs[1].sleeps = <<1000, 2000>>


\* a step in which a drain starts an iteration of its loop on a non-empty
\* buffer: an enqueue that starts the drain, or the end of an inter-message
\* sleep
EnqueueStartsDrain == ~isProcessing /\ Len(enqueued') = Len(enqueued) + 1

MsgWaitEnds ==
    /\ msgWaiters > 0
    /\ UNCHANGED <<enqueued, clearCount, isRateLimited, rateLimitDelay>>
    /\ popped' # popped \/ rateWaiters' # rateWaiters \/ isProcessing' # isProcessing

IterationBegins == EnqueueStartsDrain \/ (MsgWaitEnds /\ queue # <<>>)

\* C32: an iteration of the drain that begins with the gate active suspends
\* for rateLimitDelay and pops nothing in that step; one that begins with the
\* gate inactive pops the head at once with no rate-limit suspension; a job is
\* popped only at the end of a rate-limit suspension or in an iteration that
\* began with the gate inactive.
GateConsultedBeforeDequeue ==
    [][/\ IterationBegins /\ isRateLimited =>
            /\ rateWaiters' = rateWaiters + 1
            /\ drainSleep' = rateLimitDelay
            /\ popped' = popped
       /\ IterationBegins /\ ~isRateLimited =>
            /\ rateWaiters' = rateWaiters
            /\ Len(popped') = Len(popped) + 1
            /\ popped'[Len(popped')] = (IF EnqueueStartsDrain
                                        THEN enqueued'[Len(enqueued')]
                                        ELSE Head(queue))
       /\ popped' # popped =>
            \/ rateWaiters' = rateWaiters - 1
            \/ IterationBegins /\ ~isRateLimited]_vars

\* C32: a drain that has popped a job is suspended in a rate-limit wait of
\* 5000 ms with the next job still in the buffer
RateWaitBeforePopWitness ==
    /\ isRateLimited
    /\ rateWaiters = 1
    /\ drainSleep = 5000
    /\ popped # <<>>
    /\ queue # <<>>

\* C35: a non-empty buffer has a drain: the guard flag is set and the one
\* drain is suspended in one of its two sleeps.
NoLostWakeup ==
    queue # <<>> => isProcessing /\ rateWaiters + msgWaiters = 1

\* C35: a job was enqueued during the last inter-message sleep of a drain and
\* waits in the buffer for that drain
WakeupKeptWitness ==
    /\ Len(queue) = 1
    /\ Len(popped) = 1
    /\ Len(enqueued) = 2
    /\ msgWaiters = 1
    /\ isProcessing

\* C40: every inter-message sleep lasts the configured 1000 ms, whatever
\* setRateLimited was called with.
InterMessageDelayFixed ==
    msgWaiters > 0 => drainSleep = DefaultRateLimitDelay


\* C36: the reconnect counter stays between 0 and maxReconnectAttempts
\* whatever the order of 'disconnected' and 'ready' events, disconnects that
\* arrive during the delay of an earlier one included.
ReconnectCounterInRange ==
    /\ reconnectAttempts \in 0..maxReconnectAttempts
    /\ maxReconnectAttempts = 5

\* C36: the counter stands at its maximum while the delays of several
\* disconnects are still pending
CounterAtMaxWitness ==
    /\ reconnectAttempts = maxReconnectAttempts
    /\ pendingReconnects >= 3
    /\ disconnectsSinceReady >= 6


\* C33: after a disconnect, a session that is neither ready nor Failed has a
\* reconnection pending or running, also when the initialize() of a
\* reconnection has raised.
ReconnectionNeverAbandoned ==
    (/\ disconnectsSinceReady > 0
     /\ ~isClientReady
     /\ phase # "Failed"
     /\ initRaised)
    => pendingReconnects + initsInFlight > 0


\* C37: once disconnect() has closed the session during a graceful shutdown,
\* no step starts an initialize(), also when the delay of a disconnect handled
\* before the shutdown is still pending (runs in which a disconnect comes
\* after shutdown began are left aside).
NoInitializeAfterClose ==
    [][(/\ isShuttingDown
        /\ destroyCalls = 1
        /\ shutdownPc \in {"grace", "exited"}
        /\ ~lateDisconnect)
         => initsInFlight' <= initsInFlight]_vars


\* the exit code the request that passed the guard was made with
RequestedCode == IF shutdownCause = "signal" THEN 0 ELSE 1

\* C38: a process ended by a shutdown exits with the code of the request that
\* passed the guard, or with 1 when destroy() raised; the exit timer is set in
\* both cases, and once destroy() has settled and the timer has fired every
\* shutdown that began has ended the process.
ShutdownExitsWithRequestedCode ==
    /\ [](shutdownPc = "exited" =>
            exitStatus = IF stepRaised THEN 1 ELSE RequestedCode)
    /\ [](shutdownPc = "grace" => exitTimers = 1)
    /\ (isShuttingDown ~> exitStatus # NotExited)

\* C38: a shutdown asked for by a signal has ended the process with code 1
\* because destroy() raised
RaisedStepExitsOneWitness ==
    /\ shutdownCause = "signal"
    /\ stepRaised
    /\ shutdownPc = "exited"
    /\ exitStatus = 1


\* C34: a loaded configuration names two different endpoints, each mapped to
\* the other; no lookup answers with the number it was asked about, and a
\* number that is neither endpoint yields null.
PairOfDistinctEndpoints ==
    configStatus = "loaded" =>
        /\ config.numberA # config.numberB
        /\ lookupMapping(numberMapping, config.numberA) = config.numberB
        /\ lookupMapping(numberMapping, config.numberB) = config.numberA
        /\ lookup.done =>
              /\ lookup.target # lookup.number
              /\ lookup.number \notin {config.numberA, config.numberB}
                    => lookup.target = Absent


\* C39: after a load, whatever the file holds, both counters are non-negative
\* integers, and every increment raises its counter by exactly one.
LoadedCountersAreCounts ==
    /\ [](lastOp = "load" => state.messageCount \in Nat /\ state.errorCount \in Nat)
    /\ [][/\ lastOp' = "incrementMessageCount"
               => state'.messageCount = state.messageCount + 1
          /\ lastOp' = "incrementErrorCount"
               => state'.errorCount = state.errorCount + 1]_vars

====
